---- MODULE Spec2Model ----
(***************************************************************************)
(* Faculty Analyzer (src/app.py): a Streamlit page that loads a survey     *)
(* CSV, classifies each row into a stage and a faculty, and compares the   *)
(* positive-answer rate of a target selection with a benchmark.            *)
(*                                                                         *)
(* Text is modelled as a sequence of characters, each character a one-     *)
(* letter string ("agrave"/"Agrave" stand for a-grave, "TAB" for a tab),   *)
(* so that lower(), upper(), strip(), `in` and startswith() are computed   *)
(* and not assumed.  A missing cell (NaN) is the value Missing.  A rate is *)
(* the exact fraction [num, den] of the float the code computes.           *)
(***************************************************************************)
EXTENDS Integers, Sequences, FiniteSets, TLC

\* One browser session of the page.  Streamlit runs the script top to bottom on
\* every interaction; pc is the position of the current run.
VARIABLES
  uploaded_file,             \* the file held by st.sidebar.file_uploader
  session_selected_faculty,  \* 'selected_faculty' in st.session_state
  pc,                        \* position of the run
  outcome,                   \* what the run showed last
  df,                        \* load_data's result
  auto_year, auto_subj,      \* find_column's results
  year_col, subj_col,        \* the Data Mapping selectboxes
  mapping_touched,           \* whether the user set the <<year, subject>> selectbox
  mapped,                    \* per row: Mapped_Year, Mapped_Subj, Stage, Faculty
  sel_fac, sel_subjects, sel_stage, sel_bench,
  target_df, bench_df,       \* row numbers of df, in df's order
  cards                      \* the rendered category cards

\* A single call of one helper: its name, argument, return value and position.
VARIABLES fn_name, fn_pc, fn_arg, fn_ret

fn_vars == <<fn_name, fn_pc, fn_arg, fn_ret>>

session_vars == <<uploaded_file, session_selected_faculty>>

run_vars == <<pc, outcome, df, auto_year, auto_subj, year_col, subj_col, mapping_touched, mapped,
              sel_fac, sel_subjects, sel_stage, sel_bench, target_df, bench_df, cards>>

vars == <<session_vars, run_vars, fn_vars>>

-----------------------------------------------------------------------------
(* Python str primitives                                                   *)

UpperChars == <<"A","B","C","D","E","F","G","H","I","J","K","L","M","N","O","P","Q","R","S","T","U","V","W","X","Y","Z","Agrave">>

LowerChars == <<"a","b","c","d","e","f","g","h","i","j","k","l","m","n","o","p","q","r","s","t","u","v","w","x","y","z","agrave">>

CharIndex(seq, c) == CHOOSE i \in 1..Len(seq) : seq[i] = c

ToLowerMap == [c \in {UpperChars[i] : i \in 1..Len(UpperChars)} |-> LowerChars[CharIndex(UpperChars, c)]]

ToUpperMap == [c \in {LowerChars[i] : i \in 1..Len(LowerChars)} |-> UpperChars[CharIndex(LowerChars, c)]]

lower_char(c) == IF c \in DOMAIN ToLowerMap THEN ToLowerMap[c] ELSE c

upper_char(c) == IF c \in DOMAIN ToUpperMap THEN ToUpperMap[c] ELSE c

\* str.lower()
str_lower(s) == [i \in 1..Len(s) |-> lower_char(s[i])]

\* str.upper()
str_upper(s) == [i \in 1..Len(s) |-> upper_char(s[i])]

Whitespace == {" ", "TAB"}

\* str.strip(): drop leading and trailing whitespace
str_strip(s) ==
  LET keep == {i \in 1..Len(s) : s[i] \notin Whitespace}
  IN  IF keep = {} THEN <<>>
      ELSE LET first == CHOOSE i \in keep : \A j \in keep : i <= j
               last  == CHOOSE i \in keep : \A j \in keep : j <= i
           IN  SubSeq(s, first, last)

\* Python's `k in s` on strings: k occurs as a contiguous substring of s
str_in(k, s) == \E i \in 0..(Len(s) - Len(k)) : \A j \in 1..Len(k) : s[i + j] = k[j]

\* str.startswith(p)
str_startswith(s, p) == Len(p) <= Len(s) /\ \A j \in 1..Len(p) : s[j] = p[j]

\* A missing cell (NaN after read_csv); no text is equal to it.
Missing == <<"NaN">>

\* str(NaN) is "nan"
NanText == <<"n","a","n">>

\* astype(str) / str(x) of a cell
to_str(v) == IF v = Missing THEN NanText ELSE v

-----------------------------------------------------------------------------
(* FACULTY_DEFS: a dict, iterated in insertion order                       *)

FACULTY_DEFS ==
  <<
    [fac |-> "English & Languages", keywords |-> <<
         <<"M","e","d","i","a">>,
         <<"G","a","e","l","i","c">>,
         <<"F","r","e","n","c","h">>,
         <<"G","agrave","i","d","h","l","i","g">>,
         <<"D","r","a","m","a">>,
         <<"L","i","t","e","r","a","c","y">>,
         <<"E","n","g","l","i","s","h">> >>],
    [fac |-> "Maths", keywords |-> <<
         <<"A","p","p","l","i","c","a","t","i","o","n","s"," ","o","f"," ","M","a","t","h","s">>,
         <<"M","a","t","h","s">>,
         <<"M","a","t","h","e","m","a","t","i","c","s">> >>],
    [fac |-> "Health and Wellbeing", keywords |-> <<
         <<"P","h","y","s","i","c","a","l"," ","E","d","u","c","a","t","i","o","n">>,
         <<"P","E">>,
         <<"S","p","o","r","t">>,
         <<"H","e","a","l","t","h"," ","&"," ","F","o","o","d">>,
         <<"H","o","m","e"," ","E","c","o","n","o","m","i","c","s">>,
         <<"C","o","o","k","e","r","y">>,
         <<"H","e","a","l","t","h"," ","a","n","d"," ","W","e","l","l","b","e","i","n","g">> >>],
    [fac |-> "Science", keywords |-> <<
         <<"P","h","y","s","i","c","s">>,
         <<"B","i","o","l","o","g","y">>,
         <<"C","h","e","m","i","s","t","r","y">>,
         <<"S","c","i","e","n","c","e">> >>],
    [fac |-> "Music, Computing and Business", keywords |-> <<
         <<"B","u","s","i","n","e","s","s">>,
         <<"M","u","s","i","c">>,
         <<"A","d","m","i","n","i","s","t","r","a","t","i","o","n">>,
         <<"C","o","m","p","u","t","i","n","g">>,
         <<"C","o","m","p"," ","S","c","i">> >>],
    [fac |-> "Social Subjects", keywords |-> <<
         <<"C","l","a","s","s","i","c","a","l"," ","S","t","u","d","i","e","s">>,
         <<"G","e","o","g","r","a","p","h","y">>,
         <<"H","i","s","t","o","r","y">>,
         <<"P","o","l","i","t","i","c","s">>,
         <<"M","o","d","e","r","n"," ","S","t","u","d","i","e","s">> >>],
    [fac |-> "Technical", keywords |-> <<
         <<"W","o","o","d","w","o","r","k">>,
         <<"A","r","t"," ","a","n","d"," ","D","e","s","i","g","n">>,
         <<"G","r","a","p","h","i","c"," ","C","o","m","m","u","n","i","c","a","t","i","o","n">>,
         <<"E","n","g","i","n","e","e","r","i","n","g"," ","S","c","i","e","n","c","e">>,
         <<"T","e","c","h","n","i","c","a","l">>,
         <<"T","e","x","t","i","l","e","s">>,
         <<"F","a","s","h","i","o","n">> >>],
    [fac |-> "PSE", keywords |-> <<
         <<"P","S","E">>,
         <<"P","e","r","s","o","n","a","l"," ","a","n","d"," ","S","o","c","i","a","l"," ","E","d","u","c","a","t","i","o","n">> >>]
  >>

\* calc_pos_rate: the float (count / len) * 100 kept as the exact fraction
Rate(n, d) == [num |-> n, den |-> d]

PositiveAnswers == { <<"a","g","r","e","e">>,
                     <<"s","t","r","o","n","g","l","y"," ","a","g","r","e","e">> }

\* series.dropna().astype(str).str.lower().str.strip()
valid_of(series) ==
  LET kept == SelectSeq(series, LAMBDA v : v # Missing)
  IN  [i \in 1..Len(kept) |-> str_strip(str_lower(to_str(kept[i])))]

calc_pos_rate_no_dropna(series) ==
  LET valid == [i \in 1..Len(series) |-> str_strip(str_lower(to_str(series[i])))]
  IN  IF valid = <<>> THEN Rate(0, 1)
      ELSE Rate(100 * Len(SelectSeq(valid, LAMBDA v : v \in PositiveAnswers)), Len(valid))

calc_pos_rate(series) ==
  LET valid == valid_of(series)
  IN  IF valid = <<>> THEN Rate(0, 1)
      ELSE Rate(100 * Len(SelectSeq(valid, LAMBDA v : v \in PositiveAnswers)), Len(valid))

\* k.lower() for every keyword of every faculty
LoweredKeywords ==
  [i \in 1..Len(FACULTY_DEFS) |->
     [j \in 1..Len(FACULTY_DEFS[i].keywords) |-> str_lower(FACULTY_DEFS[i].keywords[j])]]

\* Python's `any(k.lower() in s_clean for k in keywords)` for the i-th faculty
any_keyword_in(i, s_clean) ==
  \E j \in 1..Len(LoweredKeywords[i]) : str_in(LoweredKeywords[i][j], s_clean)

RECURSIVE faculty_from(_, _)
faculty_from(i, s_clean) ==
  IF i > Len(FACULTY_DEFS) THEN "Other"
  ELSE IF any_keyword_in(i, s_clean) THEN FACULTY_DEFS[i].fac
  ELSE faculty_from(i + 1, s_clean)

RECURSIVE faculty_last_from(_, _)
faculty_last_from(i, s_clean) ==
  IF i < 1 THEN "Other"
  ELSE IF any_keyword_in(i, s_clean) THEN FACULTY_DEFS[i].fac
  ELSE faculty_last_from(i - 1, s_clean)

assign_faculty_last_match(subj) == faculty_last_from(Len(FACULTY_DEFS), str_lower(to_str(subj)))

assign_faculty(subj) == faculty_from(1, str_lower(to_str(subj)))

T_S1 == <<"S","1">>
T_S2 == <<"S","2">>
T_S3 == <<"S","3">>
T_S4 == <<"S","4">>
T_S5 == <<"S","5">>
T_S6 == <<"S","6">>

get_stage_s3_first(y) ==
  LET u == str_upper(to_str(y))
  IN  IF str_in(T_S3, u) THEN "S3"
      ELSE IF str_in(T_S1, u) \/ str_in(T_S2, u) THEN "S1 & S2"
      ELSE IF \E s \in {T_S4, T_S5, T_S6} : str_in(s, u) THEN "Senior Phase"
      ELSE "Other"

get_stage(y) ==
  LET u == str_upper(to_str(y))
  IN  IF str_in(T_S1, u) \/ str_in(T_S2, u) THEN "S1 & S2"
      ELSE IF str_in(T_S3, u) THEN "S3"
      ELSE IF \E s \in {T_S4, T_S5, T_S6} : str_in(s, u) THEN "Senior Phase"
      ELSE "Other"

-----------------------------------------------------------------------------
(* The table and the pipeline's computations                               *)

CATEGORIES ==
  << [cat |-> "1. Climate & Mindset",       prefixes |-> << <<"1"," ">>, <<"1","3"," ">>, <<"1","4"," ">> >>],
     [cat |-> "2. Pedagogy & Challenge",    prefixes |-> << <<"4"," ">>, <<"5"," ">>, <<"8"," ">>, <<"9"," ">> >>],
     [cat |-> "3. Clarity & Communication", prefixes |-> << <<"2"," ">>, <<"3"," ">>, <<"1","1"," ">> >>],
     [cat |-> "4. Support & Feedback",      prefixes |-> << <<"6"," ">>, <<"7"," ">>, <<"1","0"," ">>, <<"1","2"," ">> >>] >>

YearKeywords == << <<"y","e","a","r"," ","g","r","o","u","p">>, <<"g","r","o","u","p">>, <<"s","t","a","g","e">> >>

SubjKeywords == << <<"w","h","i","c","h"," ","s","u","b","j","e","c","t">>, <<"s","u","b","j","e","c","t"," ","a","n","s","w","e","r","i","n","g">>, <<"s","u","b","j","e","c","t"," ","t","o","d","a","y">> >>

NoFile  == [kind |-> "none", columns |-> <<>>, rows |-> <<>>]
BadFile == [kind |-> "bad",  columns |-> <<>>, rows |-> <<>>]
CsvFile(columns, rows) == [kind |-> "csv", columns |-> columns, rows |-> rows]

NoDf == [columns |-> <<>>, rows |-> <<>>]

\* str.replace(BOM, ''): every byte-order mark (the character "BOM") removed
strip_bom(s) == SelectSeq(s, LAMBDA c : c # "BOM")

\* load_data's header clean-up: str(c).strip().replace(BOM, '')
clean_columns(columns) == [i \in 1..Len(columns) |-> strip_bom(str_strip(columns[i]))]

NotFound == [found |-> FALSE, col |-> <<>>]

\* find_column: the first column whose lower-cased name contains a keyword, else None
find_column(d, keywords) ==
  LET hits == {i \in 1..Len(d.columns) :
                 \E j \in 1..Len(keywords) : str_in(keywords[j], str_lower(d.columns[i]))}
  IN  IF hits = {} THEN NotFound
      ELSE [found |-> TRUE, col |-> d.columns[CHOOSE i \in hits : \A h \in hits : i <= h]]

ColumnSet(d) == {d.columns[i] : i \in 1..Len(d.columns)}

\* df[col]: the position of the column named col
ColIndex(d, col) == CHOOSE i \in 1..Len(d.columns) : d.columns[i] = col

Cell(d, r, col) == d.rows[r][ColIndex(d, col)]

\* lines 112-123: the four derived columns of each row
apply_mapping(d, ycol, scol) ==
  [r \in 1..Len(d.rows) |->
     LET my == Cell(d, r, ycol)
         ms == str_strip(to_str(Cell(d, r, scol)))
     IN  [Mapped_Year |-> my, Mapped_Subj |-> ms,
          Stage |-> get_stage(my), Faculty |-> assign_faculty(ms)]]

\* sorted(...) + ["Other"]: only membership and emptiness are ever read
fac_list_of(m) == {m[r].Faculty : r \in 1..Len(m)}

\* sorted(df[df['Faculty'] == sel_fac]['Mapped_Subj'].unique())
fac_subjects_of(m, fac) == {m[r].Mapped_Subj : r \in {q \in 1..Len(m) : m[q].Faculty = fac}}

AllRows(m) == [r \in 1..Len(m) |-> r]

\* line 167
active_df_of(m, stage) ==
  IF stage = "All Years" THEN AllRows(m)
  ELSE SelectSeq(AllRows(m), LAMBDA r : m[r].Stage = stage)

\* line 170
target_df_of(m, stage, subjects) ==
  SelectSeq(active_df_of(m, stage), LAMBDA r : m[r].Mapped_Subj \in subjects)

\* the whole-school benchmark without the target's own rows
bench_df_excluding_target(m, stage, fac, subjects, bench) ==
  IF bench = "Whole School Average"
  THEN SelectSeq(active_df_of(m, stage), LAMBDA r : m[r].Mapped_Subj \notin subjects)
  ELSE IF bench = "Faculty Average"
       THEN SelectSeq(active_df_of(m, stage), LAMBDA r : m[r].Faculty = fac)
  ELSE SelectSeq(AllRows(m), LAMBDA r : m[r].Mapped_Subj \in subjects)

\* the department benchmark over the other stages only
bench_df_dept_other_years(m, stage, fac, subjects, bench) ==
  IF bench = "Whole School Average" THEN active_df_of(m, stage)
  ELSE IF bench = "Faculty Average"
       THEN SelectSeq(active_df_of(m, stage), LAMBDA r : m[r].Faculty = fac)
  ELSE SelectSeq(AllRows(m), LAMBDA r : m[r].Mapped_Subj \in subjects /\ m[r].Stage # stage)

\* lines 173-191
bench_df_of(m, stage, fac, subjects, bench) ==
  IF bench = "Whole School Average" THEN active_df_of(m, stage)
  ELSE IF bench = "Faculty Average"
       THEN SelectSeq(active_df_of(m, stage), LAMBDA r : m[r].Faculty = fac)
  ELSE SelectSeq(AllRows(m), LAMBDA r : m[r].Mapped_Subj \in subjects)

\* line 205; the four derived columns start with a letter and match no prefix
cat_cols_of(d, prefixes) ==
  SelectSeq(d.columns, LAMBDA c : \E j \in 1..Len(prefixes) : str_startswith(c, prefixes[j]))

\* rows[cols].values.flatten(): row by row, the cells of cols
RECURSIVE flatten(_, _, _)
flatten(d, rows, cols) ==
  IF rows = <<>> THEN <<>>
  ELSE [j \in 1..Len(cols) |-> Cell(d, Head(rows), cols[j])] \o flatten(d, Tail(rows), cols)

\* rows[q]: one column as a series
column_series(d, rows, q) == [i \in 1..Len(rows) |-> Cell(d, rows[i], q)]

RateDiff(s, b) == Rate(s.num * b.den - b.num * s.den, s.den * b.den)

RateGt(a, n) == a.num > n * a.den

RateLt(a, n) == a.num < n * a.den

\* int(x): truncation toward zero, of the exact value (the float of a whole-number
\* result can lie one unit in the last place below it)
int_of(a) == IF a.num >= 0 THEN a.num \div a.den ELSE -((-a.num) \div a.den)

\* lines 213-216 on the truncated difference instead
badge_of_truncated(diff) ==
  IF int_of(diff) > 5 THEN [color |-> "#27ae60", badge |-> "diff-green"]
  ELSE IF int_of(diff) < -5 THEN [color |-> "#c0392b", badge |-> "diff-red"]
  ELSE [color |-> "#2980b9", badge |-> ""]

\* lines 213-216
badge_of(diff) ==
  IF RateGt(diff, 5) THEN [color |-> "#27ae60", badge |-> "diff-green"]
  ELSE IF RateLt(diff, -5) THEN [color |-> "#c0392b", badge |-> "diff-red"]
  ELSE [color |-> "#2980b9", badge |-> ""]

\* the mean of the per-question rates of the given rows, in place of the pooled rate
category_score_mean(d, rows, cols) ==
  LET RECURSIVE sum(_)
      sum(i) == IF i > Len(cols) THEN Rate(0, 1)
                ELSE LET q == calc_pos_rate(column_series(d, rows, cols[i]))
                         rest == sum(i + 1)
                     IN  Rate(q.num * rest.den + rest.num * q.den, q.den * rest.den)
      total == sum(1)
  IN  Rate(total.num, total.den * Len(cols))

\* line 209 / 210
category_score(d, rows, cols) == calc_pos_rate(flatten(d, rows, cols))

\* one iteration of the category loop, lines 209-253
card_of(d, cat, cols, target, bench) ==
  LET s_score == category_score(d, target, cols)
      b_score == category_score(d, bench, cols)
      diff    == RateDiff(s_score, b_score)
      look    == badge_of(diff)
  IN  [cat |-> cat, cat_cols |-> cols,
       s_score |-> s_score, b_score |-> b_score, diff |-> diff,
       color |-> look.color, badge |-> look.badge,
       badge_pct |-> int_of(diff), shown_pct |-> int_of(s_score),
       questions |-> [i \in 1..Len(cols) |->
                        [qs |-> calc_pos_rate(column_series(d, target, cols[i])),
                         qb |-> calc_pos_rate(column_series(d, bench, cols[i]))]]]

\* lines 204-253; a category without columns is skipped (`continue`)
RECURSIVE cards_from(_, _, _, _)
cards_from(i, d, target, bench) ==
  IF i > Len(CATEGORIES) THEN <<>>
  ELSE LET cols == cat_cols_of(d, CATEGORIES[i].prefixes)
       IN  (IF cols = <<>> THEN <<>> ELSE << card_of(d, CATEGORIES[i].cat, cols, target, bench) >>)
             \o cards_from(i + 1, d, target, bench)

-----------------------------------------------------------------------------
(* Uploads                                                                 *)

MaxRows == 3

\* no helper call is in progress
FnIdle == fn_name = "none" /\ fn_pc = "idle" /\ fn_arg = <<>> /\ fn_ret = "none"

\* non-decreasing sequences of at most n positions lo..p of a pool of p rows
RECURSIVE SortedIdx(_, _, _)
SortedIdx(p, n, lo) ==
  IF n = 0 THEN {<<>>}
  ELSE {<<>>} \cup UNION { {<<x>> \o w : w \in SortedIdx(p, n - 1, x)} : x \in lo..p }

\* the tables of at most n rows of the pool; rows of one kind are adjacent
TablesOf(columns, pool, n) ==
  {CsvFile(columns, [i \in 1..Len(w) |-> pool[w[i]]]) : w \in SortedIdx(Len(pool), n, 1)}

\* year group, subject, one question of category 1
SurveyRows ==
  << << <<"S","3">>, <<"P","h","y","s","i","c","s">>,  <<"A","g","r","e","e">> >>,
     << <<"S","3">>, <<"P","h","y","s","i","c","s">>,  <<"D","i","s","a","g","r","e","e">> >>,
     << <<"S","3">>, <<"A","r","t">>,      <<"A","g","r","e","e">> >>,
     << <<"s","5"," ">>, <<"B","i","o","l","o","g","y">>, <<"S","t","r","o","n","g","l","y"," ","A","g","r","e","e">> >>,
     << <<"S","1">>, <<" ","P","h","y","s","i","c","s">>, Missing >>,
     << <<"P","7">>, Missing,     <<"D","i","s","a","g","r","e","e">> >> >>

OneCellRows == << << <<"P","h","y","s","i","c","s">> >>, << <<"A","r","t">> >> >>

\* headers that name the year group and the subject
DetectedHeader == << <<"BOM">> \o <<"Y","e","a","r"," ","G","r","o","u","p"," ">>, <<"W","h","i","c","h"," ","s","u","b","j","e","c","t">>, <<"1"," ","Q">> >>

\* headers that name neither
UndetectedHeader == << <<"T","i","m","e","s","t","a","m","p">>, <<"C","l","a","s","s">>, <<"1"," ","Q">> >>

\* one quoted header cell
OneColumnHeader == << <<"P","u","p","i","l",","," ","n","a","m","e">> >>

OneSubjectColumnHeader == << <<"S","u","b","j","e","c","t"," ","t","o","d","a","y">> >>

Files ==
  {BadFile}
    \cup TablesOf(DetectedHeader, SurveyRows, MaxRows)
    \cup TablesOf(UndetectedHeader, SurveyRows, MaxRows)
    \cup TablesOf(OneColumnHeader, OneCellRows, MaxRows)
    \cup TablesOf(OneSubjectColumnHeader, OneCellRows, MaxRows)

StageOptions == {"All Years", "S1 & S2", "S3", "Senior Phase"}

BenchOptions == {"Whole School Average", "Faculty Average", "Department Average"}

-----------------------------------------------------------------------------
(* One run of the script                                                   *)

RunStart ==
  /\ pc = "start" /\ outcome = "none" /\ df = NoDf
  /\ auto_year = NotFound /\ auto_subj = NotFound
  /\ year_col = <<>> /\ subj_col = <<>> /\ mapping_touched = <<FALSE, FALSE>> /\ mapped = <<>>
  /\ sel_fac = "None" /\ sel_subjects = {} /\ sel_stage = "All Years"
  /\ sel_bench = "Whole School Average"
  /\ target_df = <<>> /\ bench_df = <<>> /\ cards = <<>>

\* a run starts with nothing computed
ResetRun ==
  /\ pc' = "start" /\ outcome' = "none" /\ df' = NoDf
  /\ auto_year' = NotFound /\ auto_subj' = NotFound
  /\ year_col' = <<>> /\ subj_col' = <<>> /\ mapping_touched' = <<FALSE, FALSE>>
  /\ mapped' = <<>>
  /\ sel_fac' = "None" /\ sel_subjects' = {} /\ sel_stage' = "All Years"
  /\ sel_bench' = "Whole School Average"
  /\ target_df' = <<>> /\ bench_df' = <<>> /\ cards' = <<>>

\* a fresh session: nothing uploaded, empty session state
PipelineIdle ==
  /\ uploaded_file = NoFile
  /\ session_selected_faculty = FALSE
  /\ RunStart

Init == PipelineIdle /\ FnIdle

\* the interaction that started this run put a file into the uploader
UploadFile ==
  /\ pc = "start"
  /\ \E f \in Files : uploaded_file' = f
  /\ ResetRun
  /\ UNCHANGED <<session_selected_faculty, fn_vars>>

\* an interaction after a finished run: the script runs again
Rerun ==
  /\ pc = "done"
  /\ ResetRun
  /\ UNCHANGED <<session_vars, fn_vars>>

\* lines 97, 255-256
NoUpload ==
  /\ pc = "start" /\ uploaded_file.kind = "none"
  /\ outcome' = "info" /\ pc' = "done"
  /\ UNCHANGED <<session_vars, fn_vars, df, auto_year, auto_subj, year_col, subj_col, mapping_touched, mapped,
                 sel_fac, sel_subjects, sel_stage, sel_bench, target_df, bench_df, cards>>

\* load_data, the except branch, and line 99
LoadDataError ==
  /\ pc = "start" /\ uploaded_file.kind = "bad"
  /\ outcome' = "error" /\ pc' = "done"
  /\ UNCHANGED <<session_vars, fn_vars, df, auto_year, auto_subj, year_col, subj_col, mapping_touched, mapped,
                 sel_fac, sel_subjects, sel_stage, sel_bench, target_df, bench_df, cards>>

\* load_data
LoadData ==
  /\ pc = "start" /\ uploaded_file.kind = "csv"
  /\ df' = [columns |-> clean_columns(uploaded_file.columns), rows |-> uploaded_file.rows]
  /\ pc' = "mapping"
  /\ UNCHANGED <<session_vars, fn_vars, outcome, auto_year, auto_subj, year_col, subj_col, mapping_touched, mapped,
                 sel_fac, sel_subjects, sel_stage, sel_bench, target_df, bench_df, cards>>

\* line 106: df.columns[1] on a one-column table raises IndexError
DataMappingIndexError ==
  /\ pc = "mapping"
  /\ ~find_column(df, SubjKeywords).found /\ Len(df.columns) < 2
  /\ outcome' = "exception" /\ pc' = "done"
  /\ UNCHANGED <<session_vars, fn_vars, df, auto_year, auto_subj, year_col, subj_col, mapping_touched, mapped,
                 sel_fac, sel_subjects, sel_stage, sel_bench, target_df, bench_df, cards>>

\* lines 105-109: the detected column, or else the first / second column, is the
\* preselected entry of a selectbox over all columns, inside a collapsed expander;
\* an untouched selectbox returns the preselected entry
DataMapping ==
  LET y == find_column(df, YearKeywords)
      s == find_column(df, SubjKeywords)
      ay == IF y.found THEN y ELSE [found |-> FALSE, col |-> df.columns[1]]
      as == IF s.found THEN s ELSE [found |-> FALSE, col |-> df.columns[2]]
  IN  /\ pc = "mapping"
      /\ Len(df.columns) >= 2 \/ s.found
      /\ auto_year' = ay
      /\ auto_subj' = as
      /\ \E ty \in BOOLEAN, ts \in BOOLEAN :
           /\ mapping_touched' = <<ty, ts>>
           /\ IF ty THEN year_col' \in ColumnSet(df) ELSE year_col' = ay.col
           /\ IF ts THEN subj_col' \in ColumnSet(df) ELSE subj_col' = as.col
      /\ pc' = "classify"
      /\ UNCHANGED <<session_vars, fn_vars, outcome, df, mapped,
                     sel_fac, sel_subjects, sel_stage, sel_bench, target_df, bench_df, cards>>

\* lines 112-123
Classify ==
  /\ pc = "classify"
  /\ mapped' = apply_mapping(df, year_col, subj_col)
  /\ pc' = "faculty"
  /\ UNCHANGED <<session_vars, fn_vars, outcome, df, auto_year, auto_subj, year_col, subj_col,
                 mapping_touched, sel_fac, sel_subjects, sel_stage, sel_bench, target_df, bench_df, cards>>

\* line 133: fac_list[0] on a table without rows raises IndexError
FacultySelectorIndexError ==
  /\ pc = "faculty"
  /\ ~session_selected_faculty /\ fac_list_of(mapped) = {}
  /\ outcome' = "exception" /\ pc' = "done"
  /\ UNCHANGED <<session_vars, fn_vars, df, auto_year, auto_subj, year_col, subj_col, mapping_touched, mapped,
                 sel_fac, sel_subjects, sel_stage, sel_bench, target_df, bench_df, cards>>

\* lines 129-135; a selectbox without options returns None
FacultySelector ==
  /\ pc = "faculty"
  /\ session_selected_faculty \/ fac_list_of(mapped) # {}
  /\ session_selected_faculty' = TRUE
  /\ IF fac_list_of(mapped) = {} THEN sel_fac' = "None"
     ELSE sel_fac' \in fac_list_of(mapped)
  /\ pc' = "subjects"
  /\ UNCHANGED <<uploaded_file, fn_vars, outcome, df, auto_year, auto_subj, year_col, subj_col,
                 mapping_touched, mapped, sel_subjects, sel_stage, sel_bench, target_df, bench_df, cards>>

\* lines 138-156 with no subject left selected: warning and st.stop()
SubjectFilterStop ==
  /\ pc = "subjects"
  /\ sel_subjects' = {}
  /\ outcome' = "warning" /\ pc' = "done"
  /\ UNCHANGED <<session_vars, fn_vars, df, auto_year, auto_subj, year_col, subj_col, mapping_touched, mapped,
                 sel_fac, sel_stage, sel_bench, target_df, bench_df, cards>>

\* lines 138-152: the reset button selects the whole faculty, otherwise the
\* multiselect returns the subjects the user left selected
SubjectFilter ==
  /\ pc = "subjects"
  /\ \E reset \in BOOLEAN :
       \E chosen \in SUBSET fac_subjects_of(mapped, sel_fac) :
          /\ chosen # {}
          /\ reset => chosen = fac_subjects_of(mapped, sel_fac)
          /\ sel_subjects' = chosen
  /\ pc' = "filters"
  /\ UNCHANGED <<session_vars, fn_vars, outcome, df, auto_year, auto_subj, year_col, subj_col,
                 mapping_touched, mapped, sel_fac, sel_stage, sel_bench, target_df, bench_df, cards>>

\* lines 159-191
BenchmarkAndFilters ==
  /\ pc = "filters"
  /\ \E stage \in StageOptions, bench \in BenchOptions :
       /\ sel_stage' = stage
       /\ sel_bench' = bench
       /\ target_df' = target_df_of(mapped, stage, sel_subjects)
       /\ bench_df' = bench_df_of(mapped, stage, sel_fac, sel_subjects, bench)
  /\ pc' = "dashboard"
  /\ UNCHANGED <<session_vars, fn_vars, outcome, df, auto_year, auto_subj, year_col, subj_col,
                 mapping_touched, mapped, sel_fac, sel_subjects, cards>>

\* lines 193-194
EmptyTarget ==
  /\ pc = "dashboard" /\ target_df = <<>>
  /\ outcome' = "warning" /\ pc' = "done"
  /\ UNCHANGED <<session_vars, fn_vars, df, auto_year, auto_subj, year_col, subj_col, mapping_touched, mapped,
                 sel_fac, sel_subjects, sel_stage, sel_bench, target_df, bench_df, cards>>

\* lines 195-253
RenderDashboard ==
  /\ pc = "dashboard" /\ target_df # <<>>
  /\ cards' = cards_from(1, df, target_df, bench_df)
  /\ outcome' = "report" /\ pc' = "done"
  /\ UNCHANGED <<session_vars, fn_vars, df, auto_year, auto_subj, year_col, subj_col, mapping_touched, mapped,
                 sel_fac, sel_subjects, sel_stage, sel_bench, target_df, bench_df>>

Next ==
  \/ Rerun \/ UploadFile \/ NoUpload \/ LoadDataError \/ LoadData
  \/ DataMappingIndexError \/ DataMapping \/ Classify
  \/ FacultySelectorIndexError \/ FacultySelector
  \/ SubjectFilterStop \/ SubjectFilter
  \/ BenchmarkAndFilters \/ EmptyTarget \/ RenderDashboard

Spec == Init /\ [][Next]_vars

-----------------------------------------------------------------------------
(* The dashboard on tables with several questions                          *)

MaxAggRows == 4

AggSubjects == { <<"P","h","y","s","i","c","s">>, <<"A","r","t">> }

AggAnswers == { <<"A","g","r","e","e">>, <<"D","i","s","a","g","r","e","e">>, Missing }

\* year group, subject, two questions of category 1, one of category 3, a comment
AggRowSet ==
  { << <<"S","3">>, s, a1, a2, <<"A","g","r","e","e">>, <<"a","g","r","e","e">> >> : s \in AggSubjects, a1 \in AggAnswers, a2 \in AggAnswers }

AggHeader == << <<"Y","e","a","r"," ","G","r","o","u","p">>, <<"W","h","i","c","h"," ","s","u","b","j","e","c","t">>, <<"1"," ","Q">>, <<"1","3"," ","Q">>, <<"1","1"," ","Q">>, <<"C","o","m","m","e","n","t","s">> >>

RECURSIVE SetToSeq(_)
SetToSeq(S) ==
  IF S = {} THEN <<>>
  ELSE LET x == CHOOSE y \in S : TRUE IN <<x>> \o SetToSeq(S \ {x})

AggRows == SetToSeq(AggRowSet)

AggFiles == TablesOf(AggHeader, AggRows, MaxAggRows)

\* the run has reached the dashboard: Science / Physics against the whole school
InitAgg ==
  /\ FnIdle
  /\ uploaded_file \in AggFiles
  /\ session_selected_faculty = TRUE
  /\ pc = "dashboard" /\ outcome = "none" /\ cards = <<>>
  /\ df = [columns |-> clean_columns(uploaded_file.columns), rows |-> uploaded_file.rows]
  /\ auto_year = find_column(df, YearKeywords)
  /\ auto_subj = find_column(df, SubjKeywords)
  /\ year_col = auto_year.col
  /\ subj_col = auto_subj.col
  /\ mapping_touched = <<FALSE, FALSE>>
  /\ mapped = apply_mapping(df, year_col, subj_col)
  /\ sel_fac = "Science"
  /\ sel_subjects = { <<"P","h","y","s","i","c","s">> }
  /\ sel_stage = "All Years"
  /\ sel_bench = "Whole School Average"
  /\ target_df = target_df_of(mapped, sel_stage, sel_subjects)
  /\ bench_df = bench_df_of(mapped, sel_stage, sel_fac, sel_subjects, sel_bench)

NextAgg == EmptyTarget \/ RenderDashboard

SpecAgg == InitAgg /\ [][NextAgg]_vars

-----------------------------------------------------------------------------
(* Calls of the helpers on bounded inputs                                  *)

MaxSeries == 3
MaxSubjParts == 2
MaxYearParts == 2

RECURSIVE SeqsUpTo(_, _)
SeqsUpTo(S, n) ==
  IF n = 0 THEN {<<>>}
  ELSE LET shorter == SeqsUpTo(S, n - 1)
       IN  shorter \cup {Append(w, x) : w \in shorter, x \in S}

RECURSIVE Concats(_, _)
Concats(Tokens, n) ==
  IF n = 0 THEN {<<>>}
  ELSE LET shorter == Concats(Tokens, n - 1)
       IN  shorter \cup {w \o x : w \in shorter, x \in Tokens}

\* "Agree", "Strongly Agree", "Disagree", " strongly agree<TAB>", "AGREE ", "Agreed", NaN
AnswerValues ==
  { <<"A","g","r","e","e">>,
    <<"S","t","r","o","n","g","l","y"," ","A","g","r","e","e">>,
    <<"D","i","s","a","g","r","e","e">>,
    <<" ","s","t","r","o","n","g","l","y"," ","a","g","r","e","e","TAB">>,
    <<"A","G","R","E","E"," ">>,
    <<"A","g","r","e","e","d">> } \cup {Missing}

SeriesInputs == SeqsUpTo(AnswerValues, MaxSeries)

AllKeywords == UNION { {FACULTY_DEFS[i].keywords[j] : j \in 1..Len(FACULTY_DEFS[i].keywords)} : i \in 1..Len(FACULTY_DEFS) }

SubjTokens ==
  { <<"H","i","g","h","e","r"," ">>,
    <<"P","h","y","s","i","c","s">>,
    <<"P","E">>,
    <<"A","r","t">>,
    <<" ","a","n","d"," ">>,
    <<"m","a","t","h","s">>,
    <<"S","C","I","E","N","C","E">>,
    <<"N","a","t"," ","5"," ">>,
    <<"G","agrave","i","d","h","l","i","g">>,
    <<"h","i","s","t","o","r","y">> }

SubjectInputs ==
  AllKeywords \cup {str_lower(k) : k \in AllKeywords} \cup {str_upper(k) : k \in AllKeywords}
    \cup Concats(SubjTokens, MaxSubjParts) \cup {Missing}

YearTokens ==
  { <<"S","1">>,
    <<"S","2">>,
    <<"s","2">>,
    <<"S","3">>,
    <<"S","4">>,
    <<"S","5">>,
    <<"S","6">>,
    <<"P","7">>,
    <<"/">>,
    <<" ">>,
    <<"Y","e","a","r"," ">> }

YearInputs == Concats(YearTokens, MaxYearParts) \cup {Missing}

InitRate ==
  /\ PipelineIdle
  /\ fn_name = "calc_pos_rate"
  /\ fn_pc = "call"
  /\ fn_arg \in SeriesInputs
  /\ fn_ret = "none"

CallCalcPosRate ==
  /\ fn_name = "calc_pos_rate" /\ fn_pc = "call"
  /\ fn_ret' = calc_pos_rate(fn_arg)
  /\ fn_pc' = "returned"
  /\ UNCHANGED <<fn_name, fn_arg, session_vars, run_vars>>

InitFaculty ==
  /\ PipelineIdle
  /\ fn_name = "assign_faculty"
  /\ fn_pc = "call"
  /\ fn_arg \in SubjectInputs
  /\ fn_ret = "none"

CallAssignFaculty ==
  /\ fn_name = "assign_faculty" /\ fn_pc = "call"
  /\ fn_ret' = assign_faculty(fn_arg)
  /\ fn_pc' = "returned"
  /\ UNCHANGED <<fn_name, fn_arg, session_vars, run_vars>>

InitStage ==
  /\ PipelineIdle
  /\ fn_name = "get_stage"
  /\ fn_pc = "call"
  /\ fn_arg \in YearInputs
  /\ fn_ret = "none"

CallGetStage ==
  /\ fn_name = "get_stage" /\ fn_pc = "call"
  /\ fn_ret' = get_stage(fn_arg)
  /\ fn_pc' = "returned"
  /\ UNCHANGED <<fn_name, fn_arg, session_vars, run_vars>>

SpecRate == InitRate /\ [][CallCalcPosRate]_vars

SpecFaculty == InitFaculty /\ [][CallAssignFaculty]_vars

SpecStage == InitStage /\ [][CallGetStage]_vars

-----------------------------------------------------------------------------
(* Properties                                                              *)

\* Two rates are the same number
RateEq(a, b) == a.num * b.den = b.num * a.den

NonMissingIdx(series) == {i \in 1..Len(series) : series[i] # Missing}

PositiveIdx(series) ==
  {i \in NonMissingIdx(series) :
     str_strip(str_lower(series[i])) \in { <<"a","g","r","e","e">>, <<"s","t","r","o","n","g","l","y"," ","a","g","r","e","e">> }}

\* C1: calc_pos_rate returns 0 when no non-missing value remains, and otherwise
\* (number of non-missing values that, lower-cased and trimmed, are exactly
\* "agree" or "strongly agree") / (number of non-missing values) * 100;
\* ["Agree","Strongly Agree","Disagree"] gives 2/3 * 100.
C1_PosRate ==
  (fn_name = "calc_pos_rate" /\ fn_pc = "returned") =>
    /\ NonMissingIdx(fn_arg) = {} => fn_ret = Rate(0, 1)
    /\ NonMissingIdx(fn_arg) # {} =>
         RateEq(fn_ret, Rate(100 * Cardinality(PositiveIdx(fn_arg)), Cardinality(NonMissingIdx(fn_arg))))
    /\ fn_arg = << <<"A","g","r","e","e">>, <<"S","t","r","o","n","g","l","y"," ","A","g","r","e","e">>, <<"D","i","s","a","g","r","e","e">> >> => RateEq(fn_ret, Rate(200, 3))

\* a series with a missing value, an untrimmed mixed-case positive and a negative: 50
C1_Witness ==
  /\ fn_name = "calc_pos_rate" /\ fn_pc = "returned"
  /\ fn_arg = << Missing, <<" ","s","t","r","o","n","g","l","y"," ","a","g","r","e","e","TAB">>, <<"D","i","s","a","g","r","e","e">> >>
  /\ RateEq(fn_ret, Rate(50, 1))

\* the faculties, by position in FACULTY_DEFS, that have a keyword occurring in subj
\* as a case-insensitive substring
MatchingFaculties(subj) ==
  {i \in 1..Len(FACULTY_DEFS) :
     \E j \in 1..Len(FACULTY_DEFS[i].keywords) :
        str_in(str_lower(FACULTY_DEFS[i].keywords[j]), str_lower(to_str(subj)))}

\* C2: assign_faculty returns the first faculty, in definition order, that has a
\* keyword occurring as a case-insensitive substring of the subject, and "Other" if
\* no faculty has one; "Higher Physics" resolves to Science.
C2_FirstFaculty ==
  (fn_name = "assign_faculty" /\ fn_pc = "returned") =>
    /\ MatchingFaculties(fn_arg) = {} => fn_ret = "Other"
    /\ \A i \in MatchingFaculties(fn_arg) :
         (\A h \in MatchingFaculties(fn_arg) : i <= h) => fn_ret = FACULTY_DEFS[i].fac
    /\ fn_arg = <<"H","i","g","h","e","r"," ","P","h","y","s","i","c","s">> => fn_ret = "Science"

\* a subject matching keywords of two faculties resolves to the earlier one
C2_Witness ==
  /\ fn_name = "assign_faculty" /\ fn_pc = "returned"
  /\ Cardinality(MatchingFaculties(fn_arg)) >= 2
  /\ fn_arg = <<"P","h","y","s","i","c","s","P","E">>
  /\ fn_ret = "Health and Wellbeing"

StageNames == {"S1 & S2", "S3", "Senior Phase", "Other"}

\* C3: get_stage returns exactly one of the four stages by fixed priority on the
\* upper-cased value: S1/S2, then S3, then S4/S5/S6, else Other;
\* "S2" -> "S1 & S2", "S5" -> "Senior Phase", "P7" -> "Other".
C3_StagePriority ==
  (fn_name = "get_stage" /\ fn_pc = "returned") =>
    LET u == str_upper(to_str(fn_arg))
        has(tok) == str_in(tok, u)
        low  == has(<<"S","1">>) \/ has(<<"S","2">>)
        mid  == has(<<"S","3">>)
        high == has(<<"S","4">>) \/ has(<<"S","5">>) \/ has(<<"S","6">>)
    IN  /\ fn_ret \in StageNames
        /\ low => fn_ret = "S1 & S2"
        /\ (~low /\ mid) => fn_ret = "S3"
        /\ (~low /\ ~mid /\ high) => fn_ret = "Senior Phase"
        /\ (~low /\ ~mid /\ ~high) => fn_ret = "Other"
        /\ fn_arg = <<"S","2">> => fn_ret = "S1 & S2"
        /\ fn_arg = <<"S","5">> => fn_ret = "Senior Phase"
        /\ fn_arg = <<"P","7">> => fn_ret = "Other"

\* a lower-case value naming tokens of all three stages resolves to the first
C3_Witness ==
  /\ fn_name = "get_stage" /\ fn_pc = "returned"
  /\ fn_arg = <<"S","3","s","2">>
  /\ fn_ret = "S1 & S2"

\* C9: every keyword listed in FACULTY_DEFS classifies into its own faculty.
C9_KeywordOwnFaculty ==
  (fn_name = "assign_faculty" /\ fn_pc = "returned") =>
    \A i \in 1..Len(FACULTY_DEFS) : \A j \in 1..Len(FACULTY_DEFS[i].keywords) :
       fn_arg = FACULTY_DEFS[i].keywords[j] => fn_ret = FACULTY_DEFS[i].fac

\* the prefixes of the category named cat
PrefixesOf(cat) == CATEGORIES[CHOOSE i \in 1..Len(CATEGORIES) : CATEGORIES[i].cat = cat].prefixes

\* the positions of the columns whose name starts with one of the prefixes
CategoryColumns(d, prefixes) ==
  {c \in 1..Len(d.columns) :
     \E j \in 1..Len(prefixes) :
        Len(prefixes[j]) <= Len(d.columns[c]) /\ SubSeq(d.columns[c], 1, Len(prefixes[j])) = prefixes[j]}

\* the rate over the single pool of all answers of the rows in the category's columns
PooledRate(d, rows, prefixes) ==
  LET pool     == {<<i, c>> : i \in 1..Len(rows), c \in CategoryColumns(d, prefixes)}
      answer(x) == d.rows[rows[x[1]]][x[2]]
      present  == {x \in pool : answer(x) # Missing}
      positive == {x \in present :
                     str_strip(str_lower(answer(x))) \in { <<"a","g","r","e","e">>, <<"s","t","r","o","n","g","l","y"," ","a","g","r","e","e">> }}
  IN  IF present = {} THEN Rate(0, 1)
      ELSE Rate(100 * Cardinality(positive), Cardinality(present))

Rendered == pc = "done" /\ outcome = "report"

\* the mean of the two per-question rates shown on a card with two questions
MeanOfTwo(card) ==
  LET a == card.questions[1].qs
      b == card.questions[2].qs
  IN  Rate(a.num * b.den + b.num * a.den, 2 * a.den * b.den)

\* C4: every category with columns gets one card, and its score is calc_pos_rate of
\* the single pool of all answers of all target (benchmark) rows in all columns
\* starting with one of the category's prefixes, missing answers dropped; with
\* 3 and 1 positive answers out of 4 in two questions it is the rate over all 8.
C4_PooledScore ==
  Rendered =>
    /\ {cards[k].cat : k \in 1..Len(cards)} =
         {CATEGORIES[i].cat : i \in {h \in 1..Len(CATEGORIES) :
                                        CategoryColumns(df, CATEGORIES[h].prefixes) # {}}}
    /\ \A k \in 1..Len(cards) :
         /\ RateEq(cards[k].s_score, PooledRate(df, target_df, PrefixesOf(cards[k].cat)))
         /\ RateEq(cards[k].b_score, PooledRate(df, bench_df, PrefixesOf(cards[k].cat)))
         /\ ( /\ Len(cards[k].questions) = 2
              /\ cards[k].questions[1].qs = Rate(300, 4)
              /\ cards[k].questions[2].qs = Rate(100, 4) )
            => cards[k].s_score = Rate(400, 8)

\* a card over two questions, one with a missing answer, whose pooled score is not
\* the mean of the two question rates
C4_Witness ==
  /\ Rendered
  /\ \E k \in 1..Len(cards) :
       /\ Len(cards[k].questions) = 2
       /\ cards[k].questions[1].qs.den # cards[k].questions[2].qs.den
       /\ ~RateEq(cards[k].s_score, MeanOfTwo(cards[k]))

\* target score minus benchmark score, as a fraction over a positive denominator
ScoreDiff(card) ==
  [num |-> card.s_score.num * card.b_score.den - card.b_score.num * card.s_score.den,
   den |-> card.s_score.den * card.b_score.den]

Tier(card) ==
  IF card.badge = "diff-green" /\ card.color = "#27ae60" THEN "strength"
  ELSE IF card.badge = "diff-red" /\ card.color = "#c0392b" THEN "concern"
  ELSE IF card.badge = "" /\ card.color = "#2980b9" THEN "in line"
  ELSE "none"

\* C5: with diff = target score - benchmark score on the untruncated scores,
\* diff > 5 is the strength tier (green badge), diff < -5 the concern tier (red
\* badge), and every other diff, 5 and -5 included, the in-line tier (no badge).
C5_Tier ==
  Rendered =>
    \A k \in 1..Len(cards) :
       LET d == ScoreDiff(cards[k])
       IN  /\ d.den > 0
           /\ (d.num > 5 * d.den) => Tier(cards[k]) = "strength"
           /\ (d.num < -5 * d.den) => Tier(cards[k]) = "concern"
           /\ (d.num <= 5 * d.den /\ d.num >= -5 * d.den) => Tier(cards[k]) = "in line"

\* a card whose difference is exactly 5 carries no badge
C5_Witness ==
  /\ Rendered
  /\ \E k \in 1..Len(cards) :
       /\ ScoreDiff(cards[k]).num = 5 * ScoreDiff(cards[k]).den
       /\ cards[k].badge = ""

\* the run has passed the data processing of lines 165-191
Processed ==
  \/ pc = "dashboard"
  \/ pc = "done" /\ outcome \in {"report", "warning"} /\ sel_subjects # {}

\* the rows of the active stage filter, in the table's order
ActiveRows == {r \in 1..Len(mapped) : sel_stage = "All Years" \/ mapped[r].Stage = sel_stage}

RowsOf(rows) == {rows[i] : i \in 1..Len(rows)}

\* the table of the example: Physics, Physics, Art, all S3
ExampleFile ==
  CsvFile(DetectedHeader, << << <<"S","3">>, <<"P","h","y","s","i","c","s">>, <<"A","g","r","e","e">> >>,
                             << <<"S","3">>, <<"P","h","y","s","i","c","s">>, <<"D","i","s","a","g","r","e","e">> >>,
                             << <<"S","3">>, <<"A","r","t">>,     <<"A","g","r","e","e">> >> >>)

ExampleSelected ==
  /\ uploaded_file = ExampleFile
  /\ mapping_touched = <<FALSE, FALSE>>
  /\ sel_subjects = { <<"P","h","y","s","i","c","s">> }
  /\ sel_bench = "Whole School Average"

\* C6: with benchmark "Whole School Average" the benchmark rows are all rows of the
\* active stage filter, the target's own rows included, and the target rows are
\* the rows of the active stage whose subject is selected; in the example
\* (Physics, Physics, Art) the target score is 50, the benchmark 2/3 * 100 and the
\* card is in the concern tier.
C6_WholeSchool ==
  /\ (Processed /\ sel_bench = "Whole School Average") =>
       /\ RowsOf(bench_df) = ActiveRows
       /\ RowsOf(target_df) = {r \in ActiveRows : mapped[r].Mapped_Subj \in sel_subjects}
       /\ RowsOf(target_df) \subseteq RowsOf(bench_df)
  /\ (Rendered /\ ExampleSelected) =>
       /\ Len(cards) = 1
       /\ RateEq(cards[1].s_score, Rate(50, 1))
       /\ RateEq(cards[1].b_score, Rate(200, 3))
       /\ ScoreDiff(cards[1]).num < -5 * ScoreDiff(cards[1]).den
       /\ Tier(cards[1]) = "concern"

C6_Witness ==
  /\ Rendered /\ ExampleSelected
  /\ Len(target_df) = 2 /\ Len(bench_df) = 3
  /\ cards[1].badge = "diff-red" /\ cards[1].badge_pct = -16

\* C7: no run ends in an uncaught exception; every run ends in a rendered report
\* or in a user-facing message.
C7_NoUncaughtException ==
  /\ outcome # "exception"
  /\ pc = "done" => outcome \in {"report", "error", "warning", "info"}

\* C8: classification never runs on a year-group or subject column that was
\* neither detected by find_column nor set by the user.
C8_DetectedOrChosen ==
  pc = "faculty" =>
    /\ auto_year.found \/ mapping_touched[1]
    /\ auto_subj.found \/ mapping_touched[2]

\* C10: for each benchmark choice the target rows are among the benchmark rows, so
\* a rendered report has a non-empty benchmark.
C10_TargetWithinBenchmark ==
  /\ Processed => RowsOf(target_df) \subseteq RowsOf(bench_df)
  /\ Rendered => bench_df # <<>>

\* a department benchmark over all years that is larger than a stage's target
C10_Witness ==
  /\ Rendered
  /\ sel_bench = "Department Average" /\ sel_stage = "S3"
  /\ Len(bench_df) > Len(target_df)

====
